---- MODULE Spec2Model ----
(***************************************************************************)
(* Model of src/main.py: a sequential backup run                           *)
(*   main -> upload_files -> authenticate_google/get_credentials           *)
(*        -> create_drive_folder -> upload_file (per file, with retries)   *)
(* The local file system, the token cache, the OAuth endpoints and the     *)
(* Drive backend are the environment: every call into them picks its       *)
(* outcome nondeterministically.  `calls' is the trace of the calls a spy  *)
(* backend / spy file system would have recorded.                          *)
(***************************************************************************)
EXTENDS Integers, Sequences, FiniteSets, TLC

\* Largest number of regular files under the root directory.
MaxFiles == 3

\* Longest --name argument drawn when the folder name is checked.
MaxNameLen == 2

\* src/main.py:20
MAX_RETRIES == 3

\* Identifiers the backend may hand out for a created folder.
FolderIds == {"fid_a", "fid_b"}

VARIABLES
    pc,              \* position of the (single) thread of control
    dirState,        \* what args.directory points at: "missing", "notdir", "dir"
    dirFiles,        \* regular files found under the root by rglob
    name_arg,        \* args.name: None or a string
    dir_name,        \* args.directory.name, the base name of the root
    now,             \* wall clock read by datetime.now() at line 85
    present,         \* files that can currently be opened for reading
    tokenFile,       \* content of token.json
    tokenFile0,      \* content of token.json when the run started
    credsFileExists, \* whether credentials.json exists
    creds,           \* local `creds' of get_credentials
    service,         \* whether the Drive service object has been built
    files,           \* local `files' of upload_files (a sequence)
    folder_id,       \* local `folder_id' of upload_files
    folder_name,     \* name sent with the folder creation (line 89)
    idx,             \* position of the `for file_path in files' loop (1-based)
    attempt,         \* loop variable of `for attempt in range(MAX_RETRIES)'
    success_count,   \* local `success_count' of upload_files
    summary,         \* the counts logged at lines 145-149
    raised,          \* exception propagating to main ("none" when there is none)
    raisedIn,        \* function whose code raised it
    exitCode,        \* process exit status (-1 while running)
    calls            \* trace of calls to the environment

vars == <<pc, dirState, dirFiles, name_arg, dir_name, now, present, tokenFile, tokenFile0, credsFileExists, creds,
          service, files, folder_id, folder_name, idx, attempt, success_count, summary,
          raised, raisedIn, exitCode, calls>>

----------------------------------------------------------------------------
(* Credentials *)

None == [kind |-> "None"]

Credentials(token, expired, refresh_token) ==
    [kind |-> "Credentials", token |-> token, expired |-> expired,
     refresh_token |-> refresh_token]

\* token.json contents: no file, a file that does not parse, or the JSON
\* written by Credentials.to_json.
TokenAbsent == [kind |-> "absent"]
TokenCorrupt == [kind |-> "corrupt"]
TokenFiles ==
    {TokenAbsent, TokenCorrupt} \cup
    [kind : {"json"}, token : {"none", "t_cached"}, expired : BOOLEAN,
     refresh_token : {"none", "r_cached"}]

valid_needs_refresh_token(c) ==
    /\ c.kind = "Credentials"
    /\ c.token # "none"
    /\ ~c.expired
    /\ c.refresh_token # "none"

\* creds.valid: an access token is held and it has not expired.
valid(c) == c.kind = "Credentials" /\ c.token # "none" /\ ~c.expired

\* Credentials.from_authorized_user_file, with the ValueError handler of
\* lines 44-49: a missing or unparseable file leaves creds = None.
from_authorized_user_file(tf) ==
    IF tf.kind = "json"
    THEN Credentials(tf.token, tf.expired, tf.refresh_token)
    ELSE None

to_json_drop_refresh(c) ==
    [kind |-> "json", token |-> c.token, expired |-> c.expired,
     refresh_token |-> "none"]

\* creds.to_json(): the fields the cache file keeps.
to_json(c) ==
    [kind |-> "json", token |-> c.token, expired |-> c.expired,
     refresh_token |-> c.refresh_token]

\* Line 52: `creds and creds.expired and creds.refresh_token'.
ShouldRefresh(c) ==
    c.kind = "Credentials" /\ c.expired /\ c.refresh_token # "none"

----------------------------------------------------------------------------
(* Folder name.  A string is the sequence of its characters. *)

\* A str value of the program.
Str(text) == [kind |-> "str", text |-> text]

\* Line 26: the character class [<>:"/\\|?*] of the regular expression.
IllegalChars == {"<", ">", ":", "\"", "/", "\\", "|", "?", "*"}

sanitize_filename_first_only(name) ==
    [i \in 1..Len(name) |->
        IF /\ name[i] \in IllegalChars
           /\ \A j \in 1..(i - 1) : name[j] \notin IllegalChars
        THEN "_" ELSE name[i]]

\* sanitize_filename, lines 25-26: re.sub replaces every match by "_".
sanitize_filename(name) ==
    [i \in 1..Len(name) |-> IF name[i] \in IllegalChars THEN "_" ELSE name[i]]

DigitChars == <<"0", "1", "2", "3", "4", "5", "6", "7", "8", "9">>

\* The decimal digits of n, zero-padded to `width' characters.
RECURSIVE Padded(_, _)
Padded(n, width) ==
    IF width = 0 THEN <<>>
    ELSE Append(Padded(n \div 10, width - 1), DigitChars[(n % 10) + 1])

\* Line 85: strftime('%d-%m-%Y_%H-%M-%S').
strftime(t) ==
    Padded(t.d, 2) \o <<"-">> \o Padded(t.m, 2) \o <<"-">> \o Padded(t.Y, 4)
    \o <<"_">> \o
    Padded(t.H, 2) \o <<"-">> \o Padded(t.M, 2) \o <<"-">> \o Padded(t.S, 2)

\* Line 137: `folder_name or directory.name' (None and "" are falsy).
FolderBaseName(name, directory_name) ==
    IF name.kind = "str" /\ name.text # <<>> THEN name.text ELSE directory_name

\* Line 86: sanitize_filename(f"{folder_name}_{current_date}").
FolderName(base, t) == sanitize_filename(base \o <<"_">> \o strftime(t))

----------------------------------------------------------------------------
(* Helpers of the upload phase *)

file_metadata_no_parent(file, folder) == [name |-> file, parents |-> "root"]

\* Lines 101-104: metadata of an upload.
file_metadata(file, folder) == [name |-> file, parents |-> folder]

RetryAllowed_short(a) == a < MAX_RETRIES - 2

RetryAllowed_extra(a) == a < MAX_RETRIES

\* Line 119: another attempt follows a failed one.
RetryAllowed(a) == a < MAX_RETRIES - 1

CountResult_always(ok, count) == count + 1

\* Lines 142-143: `if upload_file(...): success_count += 1'.
CountResult(ok, count) == IF ok THEN count + 1 ELSE count

\* Lines 145-146: the reported counts.
RunSummary(total, succeeded) ==
    [total |-> total, succeeded |-> succeeded, failed |-> total - succeeded]

NoSummary == [total |-> -1, succeeded |-> -1, failed |-> -1]

\* The sequence 1..n, the order in which rglob yields the files.
RECURSIVE Enumerate(_)
Enumerate(n) == IF n = 0 THEN <<>> ELSE Append(Enumerate(n - 1), n)

\* One entry of the call trace: the operation, the file it is about (0 when
\* none), the folder id it carries (the parent of an upload, the id returned
\* by a folder creation) and how it ended.
Call(op, file, folder, result) ==
    [op |-> op, file |-> file, folder |-> folder, result |-> result]

Raise(exc, fn) ==
    /\ raised' = exc
    /\ raisedIn' = fn
    /\ pc' = "main_except"

----------------------------------------------------------------------------
Init ==
    /\ pc = "upload_files"
    /\ dirState \in {"missing", "notdir", "dir"}
    /\ \E n \in 0..MaxFiles : dirFiles = IF dirState = "dir" THEN 1..n ELSE {}
    /\ present = dirFiles
    /\ name_arg \in {None, Str(<<"a", "/", "b", ":", "c">>)}
    /\ dir_name = <<"d", "o", "c", "s">>
    /\ now = [d |-> 2, m |-> 11, Y |-> 2026, H |-> 17, M |-> 5, S |-> 9]
    /\ tokenFile \in TokenFiles
    /\ tokenFile0 = tokenFile
    /\ credsFileExists \in BOOLEAN
    /\ creds = None
    /\ service = FALSE
    /\ files = <<>>
    /\ folder_id = "none"
    /\ folder_name = <<>>
    /\ idx = 1
    /\ attempt = 0
    /\ success_count = 0
    /\ summary = NoSummary
    /\ raised = "none"
    /\ raisedIn = "none"
    /\ exitCode = -1
    /\ calls = <<>>

\* upload_files, lines 126-128: validate the root directory.
upload_files_validate ==
    /\ pc = "upload_files"
    /\ pc' = IF dirState # "dir" THEN "main_return" ELSE "get_files"
    /\ UNCHANGED <<dirState, dirFiles, name_arg, dir_name, now, present, tokenFile, tokenFile0, credsFileExists,
                   creds, service, files, folder_id, folder_name, idx, attempt,
                   success_count, summary, raised, raisedIn, exitCode, calls>>

upload_files_enumerate_no_empty_check ==
    /\ pc = "get_files"
    /\ files' = Enumerate(Cardinality(dirFiles))
    /\ pc' = "get_credentials"
    /\ UNCHANGED <<dirState, dirFiles, name_arg, dir_name, now, present, tokenFile, tokenFile0, credsFileExists,
                   creds, service, folder_id, folder_name, idx, attempt, success_count,
                   summary, raised, raisedIn, exitCode, calls>>

\* upload_files, lines 130-133: enumerate, return when there is nothing.
upload_files_enumerate ==
    /\ pc = "get_files"
    /\ files' = Enumerate(Cardinality(dirFiles))
    /\ pc' = IF files' = <<>> THEN "main_return" ELSE "get_credentials"
    /\ UNCHANGED <<dirState, dirFiles, name_arg, dir_name, now, present, tokenFile, tokenFile0, credsFileExists,
                   creds, service, folder_id, folder_name, idx, attempt, success_count,
                   summary, raised, raisedIn, exitCode, calls>>

\* authenticate_google line 79 calling get_credentials, lines 42-49: read
\* the token cache when it exists.
get_credentials_load ==
    /\ pc = "get_credentials"
    /\ creds' = from_authorized_user_file(tokenFile)
    /\ calls' = IF tokenFile.kind = "absent"
                THEN Append(calls, Call("get_credentials", 0, "none", "ok"))
                ELSE calls \o <<Call("get_credentials", 0, "none", "ok"),
                                Call("token_read", 0, "none", tokenFile.kind)>>
    /\ pc' = "creds_refresh"
    /\ UNCHANGED <<dirState, dirFiles, name_arg, dir_name, now, present, tokenFile, tokenFile0, credsFileExists,
                   service, files, folder_id, folder_name, idx, attempt, success_count,
                   summary, raised, raisedIn, exitCode>>

get_credentials_refresh_keep ==
    /\ pc = "creds_refresh"
    /\ IF valid(creds)
       THEN /\ pc' = "build"
            /\ UNCHANGED <<creds, calls, raised, raisedIn>>
       ELSE IF ShouldRefresh(creds)
       THEN \E outcome \in {"ok", "RefreshError", "TransportError"} :
               /\ calls' = Append(calls, Call("refresh", 0, "none", outcome))
               /\ CASE outcome = "ok" ->
                         /\ creds' = Credentials("t_refreshed", FALSE,
                                                 creds.refresh_token)
                         /\ pc' = "creds_flow"
                         /\ UNCHANGED <<raised, raisedIn>>
                    [] outcome = "RefreshError" ->
                         /\ pc' = "creds_flow"
                         /\ UNCHANGED <<creds, raised, raisedIn>>
                    [] OTHER ->
                         /\ Raise(outcome, "get_credentials")
                         /\ UNCHANGED creds
       ELSE /\ pc' = "creds_flow"
            /\ UNCHANGED <<creds, calls, raised, raisedIn>>
    /\ UNCHANGED <<dirState, dirFiles, name_arg, dir_name, now, present, tokenFile, tokenFile0, credsFileExists,
                   service, files, folder_id, folder_name, idx, attempt, success_count,
                   summary, exitCode>>

\* get_credentials, lines 51-57: a valid credential is returned at once
\* (line 75); an expired one holding a refresh token is refreshed, and a
\* RefreshError discards it.  Any other error of the refresh call propagates.
get_credentials_refresh ==
    /\ pc = "creds_refresh"
    /\ IF valid(creds)
       THEN /\ pc' = "build"
            /\ UNCHANGED <<creds, calls, raised, raisedIn>>
       ELSE IF ShouldRefresh(creds)
       THEN \E outcome \in {"ok", "RefreshError", "TransportError"} :
               /\ calls' = Append(calls, Call("refresh", 0, "none", outcome))
               /\ CASE outcome = "ok" ->
                         /\ creds' = Credentials("t_refreshed", FALSE,
                                                 creds.refresh_token)
                         /\ pc' = "creds_flow"
                         /\ UNCHANGED <<raised, raisedIn>>
                    [] outcome = "RefreshError" ->
                         /\ creds' = None
                         /\ pc' = "creds_flow"
                         /\ UNCHANGED <<raised, raisedIn>>
                    [] OTHER ->
                         /\ Raise(outcome, "get_credentials")
                         /\ UNCHANGED creds
       ELSE /\ pc' = "creds_flow"
            /\ UNCHANGED <<creds, calls, raised, raisedIn>>
    /\ UNCHANGED <<dirState, dirFiles, name_arg, dir_name, now, present, tokenFile, tokenFile0, credsFileExists,
                   service, files, folder_id, folder_name, idx, attempt, success_count,
                   summary, exitCode>>

\* get_credentials, lines 59-70: without a credential object, require
\* credentials.json and run the interactive flow.
get_credentials_flow ==
    /\ pc = "creds_flow"
    /\ IF creds # None
       THEN /\ pc' = "creds_persist"
            /\ UNCHANGED <<creds, calls, raised, raisedIn>>
       ELSE IF ~credsFileExists
       THEN /\ Raise("FileNotFoundError", "get_credentials")
            /\ UNCHANGED <<creds, calls>>
       ELSE \E outcome \in {"ok", "AuthError"} :
               /\ calls' = Append(calls, Call("flow", 0, "none", outcome))
               /\ IF outcome = "ok"
                  THEN /\ creds' = Credentials("t_flow", FALSE, "r_flow")
                       /\ pc' = "creds_persist"
                       /\ UNCHANGED <<raised, raisedIn>>
                  ELSE /\ Raise(outcome, "get_credentials")
                       /\ UNCHANGED creds
    /\ UNCHANGED <<dirState, dirFiles, name_arg, dir_name, now, present, tokenFile, tokenFile0, credsFileExists,
                   service, files, folder_id, folder_name, idx, attempt, success_count,
                   summary, exitCode>>

\* get_credentials, lines 72-75: overwrite token.json and return.
get_credentials_persist ==
    /\ pc = "creds_persist"
    /\ tokenFile' = to_json(creds)
    /\ calls' = Append(calls, Call("token_write", 0, "none", "ok"))
    /\ pc' = "build"
    /\ UNCHANGED <<dirState, dirFiles, name_arg, dir_name, now, present, tokenFile0, credsFileExists,
                   creds, service, files, folder_id, folder_name, idx, attempt,
                   success_count, summary, raised, raisedIn, exitCode>>

\* authenticate_google, line 80: build the service from the credential.
authenticate_google_build ==
    /\ pc = "build"
    /\ service' = TRUE
    /\ pc' = "create_drive_folder"
    /\ UNCHANGED <<dirState, dirFiles, name_arg, dir_name, now, present, tokenFile, tokenFile0, credsFileExists,
                   creds, files, folder_id, folder_name, idx, attempt, success_count,
                   summary, raised, raisedIn, exitCode, calls>>

create_drive_folder_swallow ==
    /\ pc = "create_drive_folder"
    /\ \E outcome \in {"ok", "HttpError"} :
          /\ \E id \in FolderIds :
                /\ folder_id' = IF outcome = "ok" THEN id ELSE "none"
                /\ calls' = Append(calls,
                                   Call("create_folder", 0, folder_id', outcome))
          /\ pc' = "upload_file"
    /\ folder_name' = FolderName(FolderBaseName(name_arg, dir_name), now)
    /\ UNCHANGED <<dirState, dirFiles, name_arg, dir_name, now, present, tokenFile, tokenFile0, credsFileExists,
                   creds, service, files, idx, attempt, success_count,
                   summary, raised, raisedIn, exitCode>>

\* upload_files line 138 and create_drive_folder, lines 83-97: one create
\* call; its HttpError is not caught before main.
create_drive_folder ==
    /\ pc = "create_drive_folder"
    /\ \E outcome \in {"ok", "HttpError"} :
          IF outcome = "ok"
          THEN /\ \E id \in FolderIds :
                     /\ folder_id' = id
                     /\ calls' = Append(calls,
                                        Call("create_folder", 0, id, outcome))
               /\ pc' = "upload_file"
               /\ UNCHANGED <<raised, raisedIn>>
          ELSE /\ calls' = Append(calls,
                                  Call("create_folder", 0, "none", outcome))
               /\ Raise(outcome, "create_drive_folder")
               /\ UNCHANGED folder_id
    /\ folder_name' = FolderName(FolderBaseName(name_arg, dir_name), now)
    /\ UNCHANGED <<dirState, dirFiles, name_arg, dir_name, now, present, tokenFile, tokenFile0, credsFileExists,
                   creds, service, files, idx, attempt, success_count,
                   summary, exitCode>>

FileDone_missing_return(ok) ==
    IF ok /\ RetryAllowed(attempt)
    THEN /\ attempt' = attempt + 1
         /\ UNCHANGED <<idx, success_count, pc>>
    ELSE /\ success_count' = CountResult(ok, success_count)
         /\ idx' = idx + 1
         /\ attempt' = 0
         /\ pc' = IF idx + 1 > Len(files) THEN "summary" ELSE "upload_file"

\* Leaving upload_file with result ok (True) or not (False): lines 142-143
\* count it and the `for file_path in files' loop moves on; after the last
\* file the counts are computed.
FileDone(ok) ==
    /\ success_count' = CountResult(ok, success_count)
    /\ idx' = idx + 1
    /\ attempt' = 0
    /\ pc' = IF idx + 1 > Len(files) THEN "summary" ELSE "upload_file"

\* One iteration of the retry loop of upload_file, lines 106-122, for
\* files[idx].  MediaFileUpload (line 107) opens the local file, outside the
\* try block; only HttpError is handled.
upload_file_attempt ==
    /\ pc = "upload_file"
    /\ idx <= Len(files)
    /\ LET file == files[idx]
           meta == file_metadata(file, folder_id)
       IN  IF file \notin present
           THEN /\ calls' = Append(calls, Call("open", file, "none",
                                               "FileNotFoundError"))
                /\ Raise("FileNotFoundError", "upload_file")
                /\ UNCHANGED <<idx, attempt, success_count>>
           ELSE \E outcome \in {"ok", "HttpError"} :
                   /\ calls' = Append(calls, Call("upload", meta.name,
                                                  meta.parents, outcome))
                   /\ UNCHANGED <<raised, raisedIn>>
                   /\ IF outcome = "ok"
                      THEN FileDone(TRUE)
                      ELSE IF RetryAllowed(attempt)
                      THEN /\ attempt' = attempt + 1
                           /\ UNCHANGED <<idx, success_count, pc>>
                      ELSE FileDone(FALSE)
    /\ UNCHANGED <<dirState, dirFiles, name_arg, dir_name, now, present, tokenFile, tokenFile0, credsFileExists,
                   creds, service, files, folder_id, folder_name, summary, exitCode>>

\* upload_files, lines 145-149: compute and log the counts.
upload_files_summary ==
    /\ pc = "summary"
    /\ summary' = RunSummary(Len(files), success_count)
    /\ pc' = "main_return"
    /\ UNCHANGED <<dirState, dirFiles, name_arg, dir_name, now, present, tokenFile, tokenFile0, credsFileExists,
                   creds, service, files, folder_id, folder_name, idx, attempt,
                   success_count, raised, raisedIn, exitCode, calls>>

main_complete_strict ==
    /\ pc = "main_return"
    /\ exitCode' = IF summary.failed > 0 THEN 1 ELSE 0
    /\ pc' = "exited"
    /\ UNCHANGED <<dirState, dirFiles, name_arg, dir_name, now, present, tokenFile, tokenFile0, credsFileExists,
                   creds, service, files, folder_id, folder_name, idx, attempt,
                   success_count, summary, raised, raisedIn, calls>>

\* main, lines 159-161: upload_files returned; the process ends normally.
main_complete ==
    /\ pc = "main_return"
    /\ exitCode' = 0
    /\ pc' = "exited"
    /\ UNCHANGED <<dirState, dirFiles, name_arg, dir_name, now, present, tokenFile, tokenFile0, credsFileExists,
                   creds, service, files, folder_id, folder_name, idx, attempt,
                   success_count, summary, raised, raisedIn, calls>>

\* main, lines 162-170: every handler logs and calls sys.exit(1).
main_except ==
    /\ pc = "main_except"
    /\ exitCode' = 1
    /\ pc' = "exited"
    /\ UNCHANGED <<dirState, dirFiles, name_arg, dir_name, now, present, tokenFile, tokenFile0, credsFileExists,
                   creds, service, files, folder_id, folder_name, idx, attempt,
                   success_count, summary, raised, raisedIn, calls>>

\* Environment: an enumerated file that still awaits its upload is removed
\* (or made unreadable) by another process.
FileVanishes ==
    /\ pc \in {"get_credentials", "creds_refresh", "creds_flow",
               "creds_persist", "build", "create_drive_folder", "upload_file"}
    /\ \E i \in idx..Len(files) :
          /\ files[i] \in present
          /\ present' = present \ {files[i]}
    /\ UNCHANGED <<pc, dirState, dirFiles, name_arg, dir_name, now, tokenFile, tokenFile0, credsFileExists, creds,
                   service, files, folder_id, folder_name, idx, attempt, success_count,
                   summary, raised, raisedIn, exitCode, calls>>

Next ==
    \/ upload_files_validate
    \/ upload_files_enumerate
    \/ get_credentials_load
    \/ get_credentials_refresh
    \/ get_credentials_flow
    \/ get_credentials_persist
    \/ authenticate_google_build
    \/ create_drive_folder
    \/ upload_file_attempt
    \/ upload_files_summary
    \/ main_complete
    \/ main_except
    \/ FileVanishes

Spec == Init /\ [][Next]_vars

\* The steps of the program itself.  It is a single thread that runs each
\* statement to completion, every call into the environment returning.
ProgramStep ==
    \/ upload_files_validate
    \/ upload_files_enumerate
    \/ get_credentials_load
    \/ get_credentials_refresh
    \/ get_credentials_flow
    \/ get_credentials_persist
    \/ authenticate_google_build
    \/ create_drive_folder
    \/ upload_file_attempt
    \/ upload_files_summary
    \/ main_complete
    \/ main_except

FairSpec == Init /\ [][Next]_vars /\ WF_vars(ProgramStep)

----------------------------------------------------------------------------
(* Runs that vary the inputs of the folder name: the --name argument, the  *)
(* base name of the root directory and the clock.  One file, a valid       *)
(* cached token; the run is followed up to the folder creation.            *)

NameChars == IllegalChars \cup {"a", "_", "."}

Names ==
    UNION {[1..n -> NameChars] : n \in 0..MaxNameLen}
    \cup {<<"a", "/", "b", ":", "c">>}

DirNames == {<<"d", "o", "c", "s">>, <<"d", ":", "*">>}

Clock == {[d |-> 2, m |-> 11, Y |-> 2026, H |-> 17, M |-> 5, S |-> 9],
          [d |-> 31, m |-> 12, Y |-> 1999, H |-> 23, M |-> 59, S |-> 58]}

NameInit ==
    /\ pc = "upload_files"
    /\ dirState = "dir"
    /\ dirFiles = {1}
    /\ present = dirFiles
    /\ name_arg \in {None} \cup {Str(t) : t \in Names}
    /\ dir_name \in DirNames
    /\ now \in Clock
    /\ tokenFile = [kind |-> "json", token |-> "t_cached", expired |-> FALSE,
                    refresh_token |-> "r_cached"]
    /\ tokenFile0 = tokenFile
    /\ credsFileExists = TRUE
    /\ creds = None
    /\ service = FALSE
    /\ files = <<>>
    /\ folder_id = "none"
    /\ folder_name = <<>>
    /\ idx = 1
    /\ attempt = 0
    /\ success_count = 0
    /\ summary = NoSummary
    /\ raised = "none"
    /\ raisedIn = "none"
    /\ exitCode = -1
    /\ calls = <<>>

NameNext ==
    \/ upload_files_validate
    \/ upload_files_enumerate
    \/ get_credentials_load
    \/ get_credentials_refresh
    \/ authenticate_google_build
    \/ create_drive_folder

NameSpec == NameInit /\ [][NameNext]_vars

TypeOK ==
    /\ exitCode \in {-1, 0, 1}
    /\ idx \in 1..(MaxFiles + 1)
    /\ attempt \in 0..(MAX_RETRIES - 1)
    /\ success_count \in 0..MaxFiles

----------------------------------------------------------------------------
(* Reading the call trace *)

CallsOf(op) == SelectSeq(calls, LAMBDA c : c.op = op)

UploadsOf(f) == SelectSeq(calls, LAMBDA c : c.op = "upload" /\ c.file = f)

IndicesOf(op) == {i \in DOMAIN calls : calls[i].op = op}

Enumerated == {files[i] : i \in DOMAIN files}

Succeeded(f) == \E i \in DOMAIN calls :
    calls[i].op = "upload" /\ calls[i].file = f /\ calls[i].result = "ok"

OpenFailed == {c.file : c \in {calls[i] : i \in IndicesOf("open")}}

\* Calls that reach the OAuth endpoints, the token cache or the backend.
RemoteOps == {"get_credentials", "token_read", "refresh", "flow",
              "token_write", "create_folder", "upload"}

NoRemoteCall == \A i \in DOMAIN calls : calls[i].op \notin RemoteOps

----------------------------------------------------------------------------
(* Claims *)

\* C1: when the root directory does not exist or is not a directory, the
\* run ends with exit code 1 and makes no authentication, folder-creation
\* or upload call.  (As stated by the specification; the code returns
\* normally from upload_files and the process exits 0.)
C1_InvalidRootExitsOne ==
    (pc = "exited" /\ dirState # "dir") =>
        (exitCode = 1 /\ NoRemoteCall /\ ~service)

\* C2: a valid root directory without regular files gives a run that makes
\* no call at all (no get_credentials, no token cache access, no folder
\* creation, no upload), builds no service, leaves token.json alone and
\* ends normally with nothing counted.
C2_EmptyRootNoCalls ==
    (dirState = "dir" /\ dirFiles = {}) =>
        /\ calls = <<>>
        /\ ~service
        /\ creds = None
        /\ folder_id = "none"
        /\ pc \in {"upload_files", "get_files", "main_return", "exited"}
        /\ success_count = 0
        /\ summary = NoSummary
        /\ (pc = "exited" => exitCode = 0)

C2_Witness ==
    /\ pc = "exited"
    /\ dirState = "dir"
    /\ dirFiles = {}
    /\ files = <<>>
    /\ exitCode = 0
    /\ tokenFile.kind = "json"

\* C3: a file whose upload succeeded got exactly k+1 attempts, k < 3 of
\* them failing with a backend error and the last one succeeding (so no
\* attempt follows the success), and it is counted: success_count is the
\* number of files that have a successful upload.
C3_RetryThenSuccess ==
    /\ \A f \in Enumerated :
          Succeeded(f) =>
             LET u == UploadsOf(f)
                 k == Len(u) - 1
             IN  /\ k < MAX_RETRIES
                 /\ \A i \in 1..k : u[i].result = "HttpError"
                 /\ u[k + 1].result = "ok"
    /\ success_count = Cardinality({f \in Enumerated : Succeeded(f)})

C3_Witness ==
    /\ pc = "exited"
    /\ \E f \in Enumerated :
          /\ Len(UploadsOf(f)) = MAX_RETRIES
          /\ Succeeded(f)
          /\ UploadsOf(f)[1].result = "HttpError"
    /\ \E g \in Enumerated : Len(UploadsOf(g)) = 2 /\ Succeeded(g)
    /\ success_count >= 2

\* The backend rejected every upload of f and accepted every upload of the
\* other files, and no enumerated file was removed meanwhile.
OnlyFileFailing(f) ==
    /\ present = dirFiles
    /\ UploadsOf(f) # <<>>
    /\ \A i \in DOMAIN calls :
          calls[i].op = "upload" =>
             (calls[i].result = "HttpError" <=> calls[i].file = f)

\* C4: when the backend fails every attempt of one file (at any position)
\* and accepts the others, that file gets exactly 3 attempts, the run is
\* not aborted, every other file is uploaded, and the run reports
\* succeeded = N-1, failed = 1 and exits normally.
C4_ExhaustedFileContained ==
    \A f \in Enumerated :
       OnlyFileFailing(f) =>
          /\ Len(UploadsOf(f)) <= MAX_RETRIES
          /\ raised = "none"
          /\ pc \in {"upload_file", "summary", "main_return", "exited"}
          /\ (pc \in {"summary", "main_return", "exited"} =>
                /\ Len(UploadsOf(f)) = MAX_RETRIES
                /\ \A g \in Enumerated \ {f} :
                      Len(UploadsOf(g)) = 1 /\ Succeeded(g)
                /\ success_count = Len(files) - 1)
          /\ (pc \in {"main_return", "exited"} =>
                summary = [total |-> Len(files),
                           succeeded |-> Len(files) - 1, failed |-> 1])
          /\ (pc = "exited" => exitCode = 0)

C4_Witness ==
    /\ pc = "exited"
    /\ Len(files) = 3
    /\ OnlyFileFailing(2)
    /\ Len(UploadsOf(2)) = MAX_RETRIES
    /\ Succeeded(3)
    /\ summary.failed = 1

\* C5: a file that vanished between enumeration and its upload is
\* contained: the run still attempts every remaining file, reports the
\* file as failed and does not exit with status 1.  (As stated by the
\* specification; the code lets the FileNotFoundError reach main.)
C5_VanishedFileContained ==
    (pc = "exited" /\ OpenFailed # {}) =>
        /\ exitCode = 0
        /\ summary.total = Len(files)
        /\ summary.failed >= Cardinality(OpenFailed)
        /\ \A g \in Enumerated \ OpenFailed :
              g \in present => UploadsOf(g) # <<>>

\* C6: once an upload has been attempted, exactly one folder-creation call
\* has been made, it succeeded, it came after get_credentials and the
\* building of the service and before every upload attempt, and every
\* upload attempt (retries included) has the id it returned as its parent.
C6_SingleFolder ==
    /\ Len(CallsOf("create_folder")) <= 1
    /\ (CallsOf("upload") # <<>> =>
          /\ Len(CallsOf("create_folder")) = 1
          /\ service
          /\ \E c \in IndicesOf("create_folder") :
                /\ calls[c].result = "ok"
                /\ calls[c].folder \in FolderIds
                /\ \E a \in IndicesOf("get_credentials") : a < c
                /\ \A u \in IndicesOf("upload") :
                      c < u /\ calls[u].folder = calls[c].folder)

C6_Witness ==
    /\ pc = "exited"
    /\ Len(CallsOf("upload")) >= 4
    /\ \E f \in Enumerated : Len(UploadsOf(f)) >= 2
    /\ Len(CallsOf("create_folder")) = 1

\* C7: a folder-creation call that fails with a backend error is the only
\* creation call of the run, no upload is ever attempted, and the process
\* exits with code 1.
C7_FolderFailureFatal ==
    (\E c \in IndicesOf("create_folder") : calls[c].result = "HttpError") =>
        /\ Len(CallsOf("create_folder")) = 1
        /\ CallsOf("upload") = <<>>
        /\ OpenFailed = {}
        /\ pc \in {"main_except", "exited"}
        /\ raised = "HttpError"
        /\ (pc = "exited" => exitCode = 1)

C7_Witness ==
    /\ pc = "exited"
    /\ exitCode = 1
    /\ Len(files) >= 2
    /\ calls[Len(calls)].op = "create_folder"
    /\ calls[Len(calls)].result = "HttpError"

\* C8: a run that completes the pipeline (zero files, or the counts were
\* reported, whatever the number of files failing with backend errors)
\* exits 0; exit code 1 only follows an exception that reached main, and a
\* backend error of an upload is never one of them.
C8_ExitCodes ==
    pc = "exited" =>
        /\ exitCode \in {0, 1}
        /\ ((dirState = "dir" /\ dirFiles = {}) => exitCode = 0)
        /\ (summary # NoSummary => exitCode = 0)
        /\ (exitCode = 0 <=> raised = "none")
        /\ (exitCode = 1 =>
              /\ summary = NoSummary
              /\ <<raised, raisedIn>> \in
                    {<<"TransportError", "get_credentials">>,
                     <<"FileNotFoundError", "get_credentials">>,
                     <<"AuthError", "get_credentials">>,
                     <<"HttpError", "create_drive_folder">>,
                     <<"FileNotFoundError", "upload_file">>})

C8_Witness ==
    /\ pc = "exited"
    /\ exitCode = 0
    /\ Len(files) >= 2
    /\ summary.failed = Len(files)
    /\ Len(CallsOf("upload")) = MAX_RETRIES * Len(files)

\* C9: whenever get_credentials returns normally the credential it returns
\* is valid, whatever token.json held.  (As stated by the specification; the
\* code returns an invalid credential that it could not refresh.)
C9_ReturnedCredentialValid ==
    pc = "build" => valid(creds)

\* C10: when the counts are reported, total is the number of enumerated
\* files, succeeded is the number of files whose upload succeeded, failed is
\* total - succeeded and 0 <= succeeded <= total; if no upload failed,
\* succeeded = total and failed = 0.
C10_Counts ==
    summary # NoSummary =>
        /\ summary.total = Cardinality(dirFiles)
        /\ summary.total = Len(files)
        /\ summary.succeeded = Cardinality({f \in Enumerated : Succeeded(f)})
        /\ summary.failed = summary.total - summary.succeeded
        /\ summary.failed =
              Cardinality({f \in Enumerated : ~Succeeded(f)})
        /\ 0 <= summary.succeeded /\ summary.succeeded <= summary.total
        /\ ((\A i \in IndicesOf("upload") : calls[i].result = "ok") =>
              (summary.succeeded = summary.total /\ summary.failed = 0))

C10_Witness ==
    /\ pc = "exited"
    /\ summary.total = 3
    /\ summary.succeeded = 2
    /\ summary.failed = 1
    /\ ~Succeeded(1)

\* The cached token was found unusable: token.json did not parse, or the
\* refresh of the expired token was refused (RefreshError).
CachedTokenDiscarded ==
    \/ \E i \in IndicesOf("token_read") : calls[i].result = "corrupt"
    \/ \E i \in IndicesOf("refresh") : calls[i].result = "RefreshError"

\* Positions of the run after get_credentials has returned normally.
AfterGetCredentials ==
    \/ pc \in {"build", "create_drive_folder", "upload_file", "summary"}
    \/ /\ pc \in {"main_return", "main_except", "exited"}
       /\ IndicesOf("get_credentials") # {}
       /\ raisedIn # "get_credentials"

NoUsableCachedCredential ==
    /\ IndicesOf("get_credentials") # {}
    /\ pc # "creds_refresh"
    /\ ~valid(creds)

\* C12: with no usable cached credential and no credentials.json, the run
\* ends with exit code 1 and never launches the interactive flow, never
\* writes token.json and never calls folder creation or upload.  (As
\* stated by the specification; the code goes on with a cached credential
\* that is invalid and cannot be refreshed.)
C12_MissingConfigFatal ==
    (NoUsableCachedCredential /\ ~credsFileExists) =>
        /\ CallsOf("flow") = <<>>
        /\ CallsOf("token_write") = <<>>
        /\ CallsOf("create_folder") = <<>>
        /\ CallsOf("upload") = <<>>
        /\ pc \in {"creds_flow", "main_except", "exited"}
        /\ (pc = "exited" => exitCode = 1)

\* A refresh or an interactive authorization succeeded in this run.
NewCredentialObtained ==
    \E i \in IndicesOf("refresh") \cup IndicesOf("flow") :
        calls[i].result = "ok"

\* C13: when a successful refresh or interactive authorization produced a
\* new credential, token.json has been overwritten (after that call, exactly
\* once) by the time get_credentials returns, and what it holds is the
\* returned credential, field by field; reloading it gives that credential.
C13_NewCredentialPersisted ==
    (NewCredentialObtained /\ AfterGetCredentials) =>
        /\ Len(CallsOf("token_write")) = 1
        /\ \A i \in IndicesOf("refresh") \cup IndicesOf("flow") :
              \A w \in IndicesOf("token_write") : i < w
        /\ tokenFile.kind = "json"
        /\ tokenFile.token = creds.token
        /\ tokenFile.expired = creds.expired
        /\ tokenFile.refresh_token = creds.refresh_token
        /\ creds.token \in {"t_refreshed", "t_flow"}
        /\ from_authorized_user_file(tokenFile) = creds

C13_Witness ==
    /\ pc = "build"
    /\ \E i \in IndicesOf("refresh") : calls[i].result = "ok"
    /\ creds = Credentials("t_refreshed", FALSE, "r_cached")
    /\ tokenFile.token = "t_refreshed"
    /\ calls[Len(calls)].op = "token_write"

\* token.json held a valid credential when the run started.
CachedTokenValid ==
    /\ tokenFile0.kind = "json"
    /\ tokenFile0.token # "none"
    /\ ~tokenFile0.expired

\* C14: when token.json holds a valid credential, get_credentials returns
\* that credential with no refresh, no interactive flow and no token.json
\* write, whether or not credentials.json exists, and never fails.
C14_ValidCacheUntouched ==
    CachedTokenValid =>
        /\ tokenFile = tokenFile0
        /\ CallsOf("refresh") = <<>>
        /\ CallsOf("flow") = <<>>
        /\ CallsOf("token_write") = <<>>
        /\ pc \notin {"creds_flow", "creds_persist"}
        /\ raisedIn # "get_credentials"
        /\ ((pc = "creds_refresh" \/ AfterGetCredentials) =>
              /\ creds.kind = "Credentials"
              /\ creds.token = tokenFile0.token
              /\ creds.expired = tokenFile0.expired
              /\ creds.refresh_token = tokenFile0.refresh_token)
        /\ (pc = "get_credentials" => creds = None)

C14_Witness ==
    /\ pc = "exited"
    /\ exitCode = 0
    /\ CachedTokenValid
    /\ tokenFile0.refresh_token = "none"
    /\ ~credsFileExists
    /\ creds = Credentials("t_cached", FALSE, "none")
    /\ summary.succeeded >= 1

\* The characters the specification lists as illegal in a file name.
ListedChars == {"<", ">", ":", "\"", "/", "\\", "|", "?", "*"}

\* The name before sanitization: the --name argument when one is given
\* (non-empty), else the base name of the root directory, then "_" and the
\* timestamp.
RequestedName ==
    (IF name_arg # None /\ name_arg.text # <<>>
     THEN name_arg.text ELSE dir_name) \o <<"_">> \o strftime(now)

\* C15: the name of the created folder is the requested name (caller's
\* name or else the directory's base name, "_", timestamp) with every
\* listed character replaced by "_" and every other character unchanged in
\* value and position; the "_" and the 19-character timestamp end it
\* unaltered.
C15_FolderName ==
    IndicesOf("create_folder") # {} =>
        /\ Len(folder_name) = Len(RequestedName)
        /\ \A i \in 1..Len(RequestedName) :
              folder_name[i] = IF RequestedName[i] \in ListedChars
                               THEN "_" ELSE RequestedName[i]
        /\ Len(strftime(now)) = 19
        /\ SubSeq(folder_name, Len(folder_name) - 19, Len(folder_name))
              = <<"_">> \o strftime(now)
        /\ \A i \in 1..Len(folder_name) : folder_name[i] \notin ListedChars

C15_Witness ==
    /\ name_arg = Str(<<"a", "/", "b", ":", "c">>)
    /\ folder_id \in FolderIds
    /\ folder_name = <<"a", "_", "b", "_", "c", "_",
                       "0", "2", "-", "1", "1", "-", "2", "0", "2", "6", "_",
                       "1", "7", "-", "0", "5", "-", "0", "9">>

FolderCreated ==
    \E i \in IndicesOf("create_folder") : calls[i].result = "ok"

\* Upload attempts are never interleaved between files, no file gets more
\* than 3 of them, and a run that created its folder, lost no local file
\* and left the upload loop gave every enumerated file at least one, so
\* that the number of upload calls lies between N and 3N.
C16_Attempts ==
    /\ \A f \in Enumerated : Len(UploadsOf(f)) <= MAX_RETRIES
    /\ Len(CallsOf("upload")) <= MAX_RETRIES * Len(files)
    /\ \A i, j \in IndicesOf("upload") :
          i < j => calls[i].file <= calls[j].file
    /\ \A i \in IndicesOf("upload") : calls[i].file \in Enumerated
    /\ ((FolderCreated /\ present = dirFiles
         /\ pc \in {"summary", "main_return", "main_except", "exited"}) =>
          /\ \A f \in Enumerated : Len(UploadsOf(f)) >= 1
          /\ Len(CallsOf("upload")) >= Len(files))

====
